---- MODULE Spec2Model ----
(***************************************************************************)
(* Model of gomarkdoc's Asciidoc format (format/asciidoc.go) and of the    *)
(* "type" template that composes a Type node out of the format's           *)
(* operations.  A Go string is a sequence of one-character strings, so     *)
(* that a line break <<"\n">> and the two characters <<"\\", "n">> are      *)
(* different texts.  A Go (string, error) result is a record               *)
(* [s |-> text, err |-> BOOLEAN].                                          *)
(***************************************************************************)
EXTENDS Integers, Sequences, FiniteSets, TLC

VARIABLES op, argA, argB, argN, out,
          node, pc, idx, wr, ret

vars == <<op, argA, argB, argN, out, node, pc, idx, wr, ret>>
callVars == <<op, argA, argB, argN, out>>
renderVars == <<node, pc, idx, wr, ret>>

(* ------------------------------ bounds -------------------------------- *)

\* Longest text enumerated over the whole alphabet.
MaxLen == 2
\* Header levels range over (1 - MaxLevel) .. MaxLevel.
MaxLevel == 8
\* List depths range over 0 .. MaxDepth.
MaxDepth == 3
\* Most children a Type node owns, over all its collections.
MaxKids == 2

(* ------------------------------- texts -------------------------------- *)

NL == "\n"
BS == "\\"

Alphabet == {"a", "A", " ", "*", "=", NL}

RECURSIVE StringsUpTo(_)
StringsUpTo(n) ==
  IF n = 0 THEN {<<>>}
  ELSE LET shorter == StringsUpTo(n - 1)
       IN  shorter \cup {Append(s, c) : s \in {t \in shorter : Len(t) = n - 1}, c \in Alphabet}

DelimLine == <<"=", "=", "=", "=">>

\* Texts worth having beyond the short ones: a body that itself holds a
\* delimiter line, a two-word heading, text made only of removed characters.
Samples ==
  { <<"a", NL>> \o DelimLine \o <<NL, "b">>,
    <<"M", "y", " ", "F", "n">>,
    <<" ", "*", "*", " ">>,
    <<"[", "a", "]">> }

Texts == StringsUpTo(MaxLen) \cup Samples
Titles == {t \in Texts : \A i \in 1..Len(t) : t[i] # NL}
Langs == {<<>>, <<"g", "o">>, <<"s", "h">>}
Levels == (1 - MaxLevel)..MaxLevel
Depths == 0..MaxDepth

Ok(s) == [s |-> s, err |-> FALSE]
Fail == [s |-> <<>>, err |-> TRUE]

\* strings.Repeat(s, n)
RECURSIVE Repeat(_, _)
Repeat(s, n) == IF n <= 0 THEN <<>> ELSE s \o Repeat(s, n - 1)

(* ------------------- helpers of the anchor generator ------------------ *)

Whitespace == {" ", NL, "\t"}
MarkupChars == {"*", "_"}
Reserved == {BS, "*", "_", "{", "}", "[", "]", "(", ")", "<", ">", "#", "+", "-", ".", "!", "~"}
Letters == {"a", "b", "f", "m", "n", "o", "t", "y", "p", "e", "c", "A", "F", "M"}
IdChars == Letters \cup {"-", "_"}

\* escape(text): every reserved character gets a backslash in front of it.
RECURSIVE escape(_)
escape(t) ==
  IF t = <<>> THEN <<>>
  ELSE IF Head(t) \in Reserved THEN <<BS, Head(t)>> \o escape(Tail(t))
  ELSE <<Head(t)>> \o escape(Tail(t))

\* plainText(text): the text with its markup stripped; a backslash escape
\* yields the escaped character, an emphasis marker yields nothing.
RECURSIVE plainText(_)
plainText(t) ==
  IF t = <<>> THEN <<>>
  ELSE IF Head(t) = BS /\ Len(t) >= 2 THEN <<t[2]>> \o plainText(SubSeq(t, 3, Len(t)))
  ELSE IF Head(t) \in MarkupChars \cup {BS} THEN plainText(Tail(t))
  ELSE <<Head(t)>> \o plainText(Tail(t))

\* strings.ToLower
LowerOf(c) ==
  CASE c = "A" -> "a"
    [] c = "F" -> "f"
    [] c = "M" -> "m"
    [] OTHER -> c

ToLower(t) == [i \in 1..Len(t) |-> LowerOf(t[i])]

\* strings.TrimSpace
RECURSIVE TrimLeft(_)
TrimLeft(t) ==
  IF t # <<>> /\ Head(t) \in Whitespace THEN TrimLeft(Tail(t)) ELSE t

RECURSIVE TrimRight(_)
TrimRight(t) ==
  IF t # <<>> /\ t[Len(t)] \in Whitespace THEN TrimRight(SubSeq(t, 1, Len(t) - 1)) ELSE t

TrimSpace(t) == TrimRight(TrimLeft(t))

\* gfmWhitespaceRegex.ReplaceAllString(t, "-"): each whitespace run becomes
\* one separator.
RECURSIVE ReplaceWhitespace(_)
ReplaceWhitespace(t) ==
  IF t = <<>> THEN <<>>
  ELSE IF Head(t) \in Whitespace THEN <<"-">> \o ReplaceWhitespace(TrimLeft(t))
  ELSE <<Head(t)>> \o ReplaceWhitespace(Tail(t))

\* gfmRemoveRegex.ReplaceAllString(t, ""): characters illegal in an
\* identifier are removed.
RemoveIllegal(t) == SelectSeq(t, LAMBDA c : c \in IdChars)

(* --------------------------- format.Asciidoc -------------------------- *)

genref(text) ==
  LET r1 == plainText(text)
      r2 == ToLower(r1)
      r3 == TrimSpace(r2)
      r4 == ReplaceWhitespace(r3)
  IN  RemoveIllegal(r4)

Bold(text) ==
  IF text = <<>> THEN Ok(<<>>)
  ELSE Ok(<<"*">> \o text \o <<"*">>)

DefaultLanguage == <<"g", "o">>
SourceTag == <<"[", "s", "o", "u", "r", "c", "e", ",">>
Fence == <<"-", "-", "-", "-">>
\* What the escape \n is inside a raw (backquoted) Go string literal: a
\* backslash and the letter n.
RawBackslashN == <<BS, "n">>

CodeBlock(language, code) ==
  IF code = <<>> THEN Ok(<<>>)
  ELSE LET lang == IF language = <<>> THEN DefaultLanguage ELSE language
       IN  Ok(SourceTag \o lang \o <<"]">> \o RawBackslashN
              \o Fence \o RawBackslashN
              \o code \o RawBackslashN
              \o Fence)

\* A marker that is not capped at six levels.
HeaderMarkerUnclamped(level) == Repeat(<<"=">>, level)

HeaderMarker(level) ==
  CASE level = 1 -> Repeat(<<"=">>, 1)
    [] level = 2 -> Repeat(<<"=">>, 2)
    [] level = 3 -> Repeat(<<"=">>, 3)
    [] level = 4 -> Repeat(<<"=">>, 4)
    [] level = 5 -> Repeat(<<"=">>, 5)
    [] OTHER -> Repeat(<<"=">>, 6)

\* A header that lets level 0 through.
headerLax(level, text) ==
  IF level < 0 THEN Fail
  ELSE Ok(<<"[", "[">> \o genref(text) \o <<"]", "]", NL>>
          \o HeaderMarker(level) \o <<" ">> \o text \o <<NL, NL>>)

header(level, text) ==
  IF level < 1 THEN Fail
  ELSE Ok(<<"[", "[">> \o genref(text) \o <<"]", "]", NL>>
          \o HeaderMarker(level) \o <<" ">> \o text \o <<NL, NL>>)

Header(level, text) == header(level, escape(text))

RawHeader(level, text) == header(level, text)

\* An xref whose target is the heading text itself, not its anchor.
LocalHrefRawTarget(headerText) ==
  Ok(<<"x", "r", "e", "f", ":">> \o headerText \o <<"[">> \o headerText \o <<"]">>)

LocalHref(headerText) ==
  Ok(<<"x", "r", "e", "f", ":">> \o genref(headerText) \o <<"[">> \o headerText \o <<"]">>)

CodeHref(loc) == Ok(<<>>)

\* A link without the guard on empty text.
LinkNoTextGuard(text, href) ==
  IF href = <<>> THEN Ok(text)
  ELSE Ok(href \o <<"[">> \o text \o <<"]">>)

Link(text, href) ==
  IF text = <<>> THEN Ok(<<>>)
  ELSE IF href = <<>> THEN Ok(text)
  ELSE Ok(href \o <<"[">> \o text \o <<"]">>)

ListEntry(depth, text) ==
  IF text = <<>> THEN Ok(<<>>)
  ELSE LET prefix == Repeat(<<"*", "*">>, depth)
       IN  Ok(prefix \o <<" ">> \o text \o <<NL>>)

DefaultTitle == <<"D", "e", "s", "c", "r", "i", "p", "t", "i", "o", "n">>
Collapsible == <<"[", "%", "c", "o", "l", "l", "a", "p", "s", "i", "b", "l", "e", "]">>

\* An accordion that escapes its body.
AccordionEscapedBody(title, body) ==
  LET t == IF title = <<>> THEN DefaultTitle ELSE title
  IN  Ok(<<".">> \o t \o <<NL>> \o Collapsible \o <<NL>> \o DelimLine \o <<NL>>
         \o escape(body) \o <<NL>> \o DelimLine \o <<NL>>)

Accordion(title, body) ==
  LET t == IF title = <<>> THEN DefaultTitle ELSE title
  IN  Ok(<<".">> \o t \o <<NL>> \o Collapsible \o <<NL>> \o DelimLine \o <<NL>>
         \o body \o <<NL>> \o DelimLine \o <<NL>>)

AccordionHeader(title) ==
  Ok(<<".">> \o title \o <<NL, "n">> \o Collapsible \o <<NL>> \o DelimLine \o <<NL>>)

AccordionTerminator == Ok(<<NL>> \o DelimLine \o <<NL>>)

Paragraph(text) == Ok(text \o <<NL, NL>>)

Escape(text) == escape(text)

(* ------------------------ calls of the format ------------------------- *)

\* A node of the documentation tree before any render has started.
NoKids == <<>>
IdleNode ==
  [Name |-> <<>>, Doc |-> <<>>, Decl |-> <<>>, Level |-> 1,
   Consts |-> NoKids, Vars |-> NoKids, Examples |-> NoKids,
   Funcs |-> NoKids, Methods |-> NoKids]

RenderIdle ==
  /\ node = IdleNode
  /\ pc = "idle"
  /\ idx = 0
  /\ wr = <<>>
  /\ ret = Ok(<<>>)

CallIdle ==
  /\ op = "none"
  /\ argA = <<>>
  /\ argB = <<>>
  /\ argN = 0
  /\ out = Ok(<<>>)

Init == CallIdle /\ RenderIdle

\* Every operation is a call on the stateless receiver: the caller passes the
\* arguments, the operation returns (string, error), and the caller is free
\* to call again.
CallBold ==
  /\ op = "none"
  /\ \E text \in Texts :
       /\ op' = "Bold"
       /\ argA' = text
       /\ argB' = <<>>
       /\ argN' = 0
       /\ out' = Bold(text)
       /\ UNCHANGED renderVars

CallCodeBlock ==
  /\ op = "none"
  /\ \E language \in Langs, code \in Texts :
       /\ op' = "CodeBlock"
       /\ argA' = language
       /\ argB' = code
       /\ argN' = 0
       /\ out' = CodeBlock(language, code)
       /\ UNCHANGED renderVars

CallHeader ==
  /\ op = "none"
  /\ \E level \in Levels, text \in Texts :
       /\ op' = "Header"
       /\ argA' = text
       /\ argB' = <<>>
       /\ argN' = level
       /\ out' = Header(level, text)
       /\ UNCHANGED renderVars

CallRawHeader ==
  /\ op = "none"
  /\ \E level \in Levels, text \in Texts :
       /\ op' = "RawHeader"
       /\ argA' = text
       /\ argB' = <<>>
       /\ argN' = level
       /\ out' = RawHeader(level, text)
       /\ UNCHANGED renderVars

CallLocalHref ==
  /\ op = "none"
  /\ \E headerText \in Texts :
       /\ op' = "LocalHref"
       /\ argA' = headerText
       /\ argB' = <<>>
       /\ argN' = 0
       /\ out' = LocalHref(headerText)
       /\ UNCHANGED renderVars

CallCodeHref ==
  /\ op = "none"
  /\ \E loc \in Titles :
       /\ op' = "CodeHref"
       /\ argA' = loc
       /\ argB' = <<>>
       /\ argN' = 0
       /\ out' = CodeHref(loc)
       /\ UNCHANGED renderVars

CallLink ==
  /\ op = "none"
  /\ \E text \in Texts, href \in Titles :
       /\ op' = "Link"
       /\ argA' = text
       /\ argB' = href
       /\ argN' = 0
       /\ out' = Link(text, href)
       /\ UNCHANGED renderVars

CallListEntry ==
  /\ op = "none"
  /\ \E depth \in Depths, text \in Texts :
       /\ op' = "ListEntry"
       /\ argA' = text
       /\ argB' = <<>>
       /\ argN' = depth
       /\ out' = ListEntry(depth, text)
       /\ UNCHANGED renderVars

CallAccordion ==
  /\ op = "none"
  /\ \E title \in Titles, body \in Texts :
       /\ op' = "Accordion"
       /\ argA' = title
       /\ argB' = body
       /\ argN' = 0
       /\ out' = Accordion(title, body)
       /\ UNCHANGED renderVars

CallAccordionHeader ==
  /\ op = "none"
  /\ \E title \in Titles :
       /\ op' = "AccordionHeader"
       /\ argA' = title
       /\ argB' = <<>>
       /\ argN' = 0
       /\ out' = AccordionHeader(title)
       /\ UNCHANGED renderVars

CallAccordionTerminator ==
  /\ op = "none"
  /\ op' = "AccordionTerminator"
  /\ argA' = <<>>
  /\ argB' = <<>>
  /\ argN' = 0
  /\ out' = AccordionTerminator
  /\ UNCHANGED renderVars

CallParagraph ==
  /\ op = "none"
  /\ \E text \in Texts :
       /\ op' = "Paragraph"
       /\ argA' = text
       /\ argB' = <<>>
       /\ argN' = 0
       /\ out' = Paragraph(text)
       /\ UNCHANGED renderVars

CallEscape ==
  /\ op = "none"
  /\ \E text \in Texts :
       /\ op' = "Escape"
       /\ argA' = text
       /\ argB' = <<>>
       /\ argN' = 0
       /\ out' = Ok(Escape(text))
       /\ UNCHANGED renderVars

Return ==
  /\ op # "none"
  /\ op' = "none"
  /\ argA' = <<>>
  /\ argB' = <<>>
  /\ argN' = 0
  /\ out' = Ok(<<>>)
  /\ UNCHANGED renderVars

Next ==
  \/ CallBold
  \/ CallCodeBlock
  \/ CallHeader
  \/ CallRawHeader
  \/ CallLocalHref
  \/ CallCodeHref
  \/ CallLink
  \/ CallListEntry
  \/ CallAccordion
  \/ CallAccordionHeader
  \/ CallAccordionTerminator
  \/ CallParagraph
  \/ CallEscape
  \/ Return

Spec == Init /\ [][Next]_vars

(* ------------------------- the type template ------------------------- *)

TypeLabel == <<"t", "y", "p", "e", " ">>
FuncLabel == <<"f", "u", "n", "c", " ">>
ExampleLabel == <<"E", "x", "a", "m", "p", "l", "e", " ">>
GoLanguage == <<"g", "o">>

\* A child of a Type node: a value, an example or a function.
Kid(name, level) ==
  [Name |-> name, Level |-> level, Doc |-> <<"a">>, Decl |-> <<"a">>]

Kids == {Kid(<<"a">>, 2), Kid(<<"b">>, 3), Kid(<<"a">>, 0)}

RECURSIVE KidSeqs(_)
KidSeqs(n) ==
  IF n = 0 THEN {<<>>}
  ELSE LET shorter == KidSeqs(n - 1)
       IN  shorter \cup {Append(ks, k) : ks \in {x \in shorter : Len(x) = n - 1}, k \in Kids}

\* The ways to cut a sequence of n children into five consecutive collections.
Cuts(n) ==
  {c \in [1..4 -> 0..n] : c[1] <= c[2] /\ c[2] <= c[3] /\ c[3] <= c[4]}

TypeNode(level, doc, ks, c) ==
  [Name |-> <<"T", "*">>, Doc |-> doc, Decl |-> <<"a">>, Level |-> level,
   Consts |-> SubSeq(ks, 1, c[1]),
   Vars |-> SubSeq(ks, c[1] + 1, c[2]),
   Examples |-> SubSeq(ks, c[2] + 1, c[3]),
   Funcs |-> SubSeq(ks, c[3] + 1, c[4]),
   Methods |-> SubSeq(ks, c[4] + 1, Len(ks))]

TypeLevels == {0, 1}
Docs == {<<>>, <<"a">>}

Trees ==
  UNION {{TypeNode(level, doc, ks, c) : level \in TypeLevels, doc \in Docs, c \in Cuts(Len(ks))}
         : ks \in KidSeqs(MaxKids)}

\* s1 + s2 of two (string, error) results inside one template: the first
\* error aborts.
Then(r1, r2) ==
  IF r1.err THEN Fail
  ELSE IF r2.err THEN Fail
  ELSE Ok(r1.s \o r2.s)

\* {{template "doc" .Doc}}: the Doc text as a paragraph.
docTemplate(doc) == Paragraph(Escape(doc))

\* A child renders by the same protocol at its own Level: header, doc,
\* declaration.
kidTemplate(label, k) ==
  Then(RawHeader(k.Level, label \o Escape(k.Name)),
       Then(docTemplate(k.Doc), CodeBlock(GoLanguage, k.Decl)))

\* {{template "value" .}}
valueTemplate(k) == kidTemplate(<<>>, k)

\* {{template "example" .}}
exampleTemplate(k) == kidTemplate(ExampleLabel, k)

\* {{template "func" .}}
funcTemplate(k) == kidTemplate(FuncLabel, k)

\* Line 1: codeHref .Location | link (escape .Name) | printf "type %s" |
\* rawHeader .Level.  A pipeline hands each result to the next command as its
\* last argument, and stops at the first error.
typeHeader(n) ==
  LET href == CodeHref(<<>>)
      lnk == IF href.err THEN Fail ELSE Link(Escape(n.Name), href.s)
  IN  IF lnk.err THEN Fail ELSE RawHeader(n.Level, TypeLabel \o lnk.s)

\* Line 5: codeBlock "go" .Decl
typeDecl(n) == CodeBlock(GoLanguage, n.Decl)

\* The collection a range walks, and the template it applies to each element.
RangeItems(p) ==
  CASE p = "consts" -> node.Consts
    [] p = "vars" -> node.Vars
    [] p = "examples" -> node.Examples
    [] p = "funcs" -> node.Funcs
    [] p = "methods" -> node.Methods

RangeTemplate(p, k) ==
  CASE p = "consts" -> valueTemplate(k)
    [] p = "vars" -> valueTemplate(k)
    [] p = "examples" -> exampleTemplate(k)
    [] p = "funcs" -> funcTemplate(k)
    [] p = "methods" -> funcTemplate(k)

\* The ranges with Methods walked before Funcs.
AfterRangeMethodsFirst(p) ==
  CASE p = "consts" -> "vars"
    [] p = "vars" -> "examples"
    [] p = "examples" -> "methods"
    [] p = "methods" -> "funcs"
    [] p = "funcs" -> "end"

\* The action that follows each range in the template text.
AfterRange(p) ==
  CASE p = "consts" -> "vars"
    [] p = "vars" -> "examples"
    [] p = "examples" -> "funcs"
    [] p = "funcs" -> "methods"
    [] p = "methods" -> "end"

RECURSIVE Flatten(_)
Flatten(chunks) ==
  IF chunks = <<>> THEN <<>> ELSE Head(chunks) \o Flatten(Tail(chunks))

\* The caller of the template: it executes into a buffer and returns the
\* buffer's text, or the error and no text.
writeTemplate(failed, chunks) ==
  IF failed THEN Fail ELSE Ok(Flatten(chunks))

RenderInit ==
  /\ CallIdle
  /\ node \in Trees
  /\ pc = "header"
  /\ idx = 0
  /\ wr = <<>>
  /\ ret = Ok(<<>>)

\* One template action: its result is written to the buffer, or its error
\* ends the execution.
Emit(r, nextPc, nextIdx) ==
  /\ pc' = IF r.err THEN "failed" ELSE nextPc
  /\ idx' = IF r.err THEN idx ELSE nextIdx
  /\ wr' = IF r.err THEN wr ELSE Append(wr, r.s)
  /\ UNCHANGED <<node, ret>>
  /\ UNCHANGED callVars

ExecHeader ==
  /\ pc = "header"
  /\ Emit(typeHeader(node), "doc", 0)

ExecDoc ==
  /\ pc = "doc"
  /\ Emit(docTemplate(node.Doc), "decl", 0)

ExecDecl ==
  /\ pc = "decl"
  /\ Emit(typeDecl(node), "consts", 0)

Ranges == {"consts", "vars", "examples", "funcs", "methods"}

\* {{range .X}}{{template ... .}}{{end}} with elements left: render the next.
RangeStep ==
  /\ pc \in Ranges
  /\ idx < Len(RangeItems(pc))
  /\ Emit(RangeTemplate(pc, RangeItems(pc)[idx + 1]), pc, idx + 1)

\* A range with no element left writes nothing and the next action runs.
RangeEnd ==
  /\ pc \in Ranges
  /\ idx = Len(RangeItems(pc))
  /\ pc' = AfterRange(pc)
  /\ idx' = 0
  /\ UNCHANGED <<node, wr, ret>>
  /\ UNCHANGED callVars

ExecReturn ==
  /\ pc \in {"end", "failed"}
  /\ ret' = writeTemplate(pc = "failed", wr)
  /\ pc' = "returned"
  /\ UNCHANGED <<node, idx, wr>>
  /\ UNCHANGED callVars

RenderNext ==
  \/ ExecHeader
  \/ ExecDoc
  \/ ExecDecl
  \/ RangeStep
  \/ RangeEnd
  \/ ExecReturn

RenderSpec == RenderInit /\ [][RenderNext]_vars

(* ----------------------- reading rendered text ------------------------ *)

Min(a, b) == IF a < b THEN a ELSE b

\* Whether pattern p stands in s at position i.
MatchAt(s, p, i) ==
  /\ i >= 1
  /\ i + Len(p) - 1 <= Len(s)
  /\ SubSeq(s, i, i + Len(p) - 1) = p

Occurrences(s, p) == {i \in 1..Len(s) : MatchAt(s, p, i)}
Smallest(S) == CHOOSE i \in S : \A j \in S : i <= j
Largest(S) == CHOOSE i \in S : \A j \in S : i >= j

\* The anchor of a heading: what stands between "[[" and the first "]]".
HeaderAnchor(s) ==
  SubSeq(s, 3, Smallest(Occurrences(s, <<"]", "]">>)) - 1)

\* The heading line: what follows the anchor line up to the next line break.
HeadingLine(s) ==
  LET from == Smallest(Occurrences(s, <<NL>>)) + 1
      rest == SubSeq(s, from, Len(s))
  IN  SubSeq(rest, 1, Smallest(Occurrences(rest, <<NL>>)) - 1)

\* The marker of a heading line: its leading run of "=".
RECURSIVE LeadingEquals(_)
LeadingEquals(line) ==
  IF line # <<>> /\ Head(line) = "=" THEN 1 + LeadingEquals(Tail(line)) ELSE 0

\* The target of an xref: what stands between "xref:" and the first "[".
XrefOpen(s) == Smallest(Occurrences(s, <<"[">>))
XrefTarget(s) == SubSeq(s, 6, XrefOpen(s) - 1)
\* The visible text of an xref: what stands between that "[" and the last "]".
XrefText(s) == SubSeq(s, XrefOpen(s) + 1, Len(s) - 1)

\* The body of a collapsible block: what stands between the first and the
\* last "====" delimiter line.
DelimPattern == <<NL>> \o DelimLine \o <<NL>>
BlockBody(s) ==
  LET occ == Occurrences(s, DelimPattern)
  IN  SubSeq(s, Smallest(occ) + Len(DelimPattern), Largest(occ) - 1)

(* ------------------------------ claims -------------------------------- *)

\* C1: for every title t and body, AccordionHeader(t) + body +
\* AccordionTerminator() is byte-for-byte equal to Accordion(t, body).
C1_SplitEqualsAccordion ==
  op = "Accordion" =>
    AccordionHeader(argA).s \o argB \o AccordionTerminator.s = out.s

\* C2: Header and RawHeader return an error and an empty string for every
\* level < 1; for every level >= 1 they succeed with a heading whose marker
\* is exactly min(level, 6) "=" characters.
C2_HeaderLevels ==
  op \in {"Header", "RawHeader"} =>
    IF argN < 1
    THEN out.err /\ out.s = <<>>
    ELSE /\ ~out.err
         /\ LeadingEquals(HeadingLine(out.s)) = Min(argN, 6)
         /\ HeadingLine(out.s)[Min(argN, 6) + 1] = " "

C2_Witness ==
  /\ op = "Header"
  /\ argN > 6
  /\ argA # <<>>
  /\ ~out.err

\* C3: for every non-empty headerText and every level >= 1 the anchor in
\* LocalHref(headerText)'s xref target is the anchor RawHeader(level,
\* headerText) puts in its [[...]] line, and the visible link text is
\* headerText itself.
C3_HrefMatchesHeader ==
  (op = "LocalHref" /\ argA # <<>>) =>
    /\ ~out.err
    /\ \A level \in 1..MaxLevel :
         XrefTarget(out.s) = HeaderAnchor(RawHeader(level, argA).s)
    /\ XrefText(out.s) = argA

C3_Witness ==
  /\ op = "LocalHref"
  /\ argA = <<"M", "y", " ", "F", "n">>
  /\ XrefTarget(out.s) = <<"m", "y", "-", "f", "n">>

\* C4: every operation given empty text returns the empty string with no
\* error: Bold(""), ListEntry(d, ""), Paragraph("") and CodeBlock(lang, "").
C4_EmptyInEmptyOut ==
  (\/ (op \in {"Bold", "ListEntry", "Paragraph"} /\ argA = <<>>)
   \/ (op = "CodeBlock" /\ argB = <<>>)) =>
    out = Ok(<<>>)

\* C5: Link("", href) is empty for every href, Link(text, "") is exactly text
\* for every non-empty text, neither is an error, and only when both are
\* non-empty is link markup holding both href and text produced.
C5_LinkDegrades ==
  op = "Link" =>
    /\ ~out.err
    /\ argA = <<>> => out.s = <<>>
    /\ (argA # <<>> /\ argB = <<>>) => out.s = argA
    /\ (argA # <<>> /\ argB # <<>>) => out.s = argB \o <<"[">> \o argA \o <<"]">>

C5_Witness ==
  /\ op = "Link"
  /\ argA = <<>>
  /\ argB # <<>>
  /\ out.s = <<>>

\* C6: for every non-empty code, CodeBlock("", code) equals CodeBlock("go",
\* code), and CodeBlock(language, code) is a '[source,<language>]' line, a
\* '----' line, the code verbatim and a closing '----' line, separated by
\* line-break characters.
C6_CodeBlockLines ==
  (op = "CodeBlock" /\ argB # <<>>) =>
    LET lang == IF argA = <<>> THEN <<"g", "o">> ELSE argA
    IN  /\ ~out.err
        /\ out.s = <<"[", "s", "o", "u", "r", "c", "e", ",">> \o lang \o <<"]", NL>>
                   \o <<"-", "-", "-", "-", NL>>
                   \o argB \o <<NL>>
                   \o <<"-", "-", "-", "-">>

\* C9: the anchor emitted by Header, RawHeader and LocalHref is never the
\* empty string, whatever the heading text reduces to.
C9_AnchorNeverEmpty ==
  /\ (op \in {"Header", "RawHeader"} /\ ~out.err) => HeaderAnchor(out.s) # <<>>
  /\ op = "LocalHref" => XrefTarget(out.s) # <<>>

\* C10: Accordion("", body) equals Accordion("Description", body); for every
\* title and body the body stands verbatim between the opening and the
\* closing '====' delimiter lines; Accordion never returns an error.
C10_AccordionBody ==
  op = "Accordion" =>
    /\ ~out.err
    /\ argA = <<>> => out = Accordion(<<"D", "e", "s", "c", "r", "i", "p", "t", "i", "o", "n">>, argB)
    /\ BlockBody(out.s) = argB
    /\ Occurrences(out.s, DelimPattern) # {}

C10_Witness ==
  /\ op = "Accordion"
  /\ argA = <<>>
  /\ Occurrences(argB, DelimLine) # {}
  /\ BlockBody(out.s) = argB

(* ------------------------- claims on the render ------------------------ *)

\* The results of the parts of a Type node in the order of the rendering
\* protocol: header, Doc, Decl, Consts, Vars, Examples, Funcs, Methods.
PartResults(n) ==
  <<typeHeader(n), docTemplate(n.Doc), typeDecl(n)>>
  \o [i \in 1..Len(n.Consts) |-> valueTemplate(n.Consts[i])]
  \o [i \in 1..Len(n.Vars) |-> valueTemplate(n.Vars[i])]
  \o [i \in 1..Len(n.Examples) |-> exampleTemplate(n.Examples[i])]
  \o [i \in 1..Len(n.Funcs) |-> funcTemplate(n.Funcs[i])]
  \o [i \in 1..Len(n.Methods) |-> funcTemplate(n.Methods[i])]

AllKids(n) == n.Consts \o n.Vars \o n.Examples \o n.Funcs \o n.Methods

LevelsOK(n) ==
  /\ n.Level >= 1
  /\ \A i \in 1..Len(AllKids(n)) : AllKids(n)[i].Level >= 1

\* C7: a Type node's parts are emitted in the fixed order header, Doc, Decl,
\* Consts, Vars, Examples, Funcs, Methods, each collection in its original
\* order and each child once; an empty collection contributes nothing.
C7_TypeOrder ==
  LET parts == PartResults(node)
  IN  /\ Len(wr) <= Len(parts)
      /\ \A i \in 1..Len(wr) : wr[i] = parts[i].s
      /\ (pc = "returned" /\ ~ret.err) =>
           /\ Len(wr) = 3 + Len(AllKids(node))
           /\ ret.s = Flatten([i \in 1..Len(parts) |-> parts[i].s])

C7_Witness ==
  /\ pc = "returned"
  /\ ~ret.err
  /\ node.Consts = <<>> /\ node.Vars = <<>> /\ node.Examples = <<>>
  /\ node.Methods = <<>>
  /\ Len(node.Funcs) = 2
  /\ node.Funcs[1] # node.Funcs[2]
  /\ Len(wr) = 5
  /\ wr[4] = funcTemplate(node.Funcs[1]).s
  /\ wr[5] = funcTemplate(node.Funcs[2]).s

====
